---- MODULE Spec2Model ----
(***************************************************************************)
(* Model of the request handlers of src/main.py: the lifespan hook that    *)
(* builds the module-level xpath_agent, and the handlers generate_xpath,   *)
(* execute_tests and generate_test_scenarios.  One request is in flight at *)
(* a time; the handler's locals are state while it runs.                   *)
(*                                                                         *)
(* A Python dict is a TLA+ function whose DOMAIN is the set of keys that   *)
(* are present, so that d.get(k, default) and d[k] differ as in Python.    *)
(* An optional value (None or a value) is <<>> or <<v>>.                   *)
(***************************************************************************)
EXTENDS Integers, Sequences, FiniteSets, TLC

VARIABLES
  started,      \* the lifespan hook has run and the application serves requests
  xpath_agent,  \* the module global: <<>> is None, <<a>> an XPathAgent
  handler,      \* the handler of the request in flight, or "idle"
  pc,           \* its position
  request,      \* execute_tests: the request dict
  analysis,     \* generate_test_scenarios: the local 'analysis'
  result,       \* generate_xpath: the local 'result'
  exc,          \* generate_xpath: the exception the outer except caught
  response,     \* what the handler returned or raised
  genCalls,     \* calls of SimpleXPathGenerator.generate_xpath, this request
  agentCalls,   \* calls of xpath_agent.generate_xpath, this request
  executors     \* SimpleTestExecutor objects constructed, this request

vars == <<started, xpath_agent, handler, pc, request, analysis, result, exc,
          response, genCalls, agentCalls, executors>>

(* ---------------------------- bounds ----------------------------------- *)

\* Longest interactive_elements sequence an analysis returns in the model.
MaxElems == 3

(* ------------------------- Python helpers ------------------------------ *)

\* dict.get(k, default)
Get(d, k, default) == IF k \in DOMAIN d THEN d[k] ELSE default

\* dict.get(k): None (<<>>) when the key is absent
GetOpt(d, k) == IF k \in DOMAIN d THEN <<d[k]>> ELSE <<>>

\* truthiness of an optional string: None and '' are falsy
Truthy(opt) == opt /= <<>> /\ opt[1] /= ""

(* ------------------- generate_test_scenarios --------------------------- *)

\* Tags of the elements an analysis reports as interactive: the three the
\* handler keeps and one it skips.
InteractiveTags == {"button", "input", "a", "select"}

TextValues == {"", "Go"}
IdValues == {"", "x"}

\* Element dicts: 'tag' always present; 'text' and 'id' missing, empty or
\* not, each on its own, and both present with either text.
Elements ==
  UNION { { [tag |-> t] : t \in InteractiveTags },
          { [tag |-> t, text |-> x] : t \in InteractiveTags, x \in TextValues },
          { [tag |-> t, id |-> i] : t \in InteractiveTags, i \in IdValues },
          { [tag |-> t, text |-> x, id |-> "x"] :
              t \in InteractiveTags, x \in TextValues } }

\* What HTMLParser.analyze_html_structure returns when the dict lacks the key
\* 'interactive_elements'.
OtherAnalyses == { [form_elements |-> <<>>] }

NoAnalysis == [none |-> TRUE]

\* Qualifies without the tag filter
Qualifies_AnyInteractive(element) == element["tag"] \in InteractiveTags

\* the tag filter of the loop body
Qualifies(element) == element["tag"] \in {"button", "input", "a"}

\* element.get('text', element['tag'])
Label(element) == Get(element, "text", element["tag"])

\* Priority that tests the presence of the key instead of its value
Priority_KeyPresent(element) == IF "id" \in DOMAIN element THEN "high" ELSE "medium"

\* 'high' if element.get('id') else 'medium'
Priority(element) == IF Truthy(GetOpt(element, "id")) THEN "high" ELSE "medium"

\* Scenario numbered from len(scenarios) instead of len(scenarios)+1
Scenario_ZeroBased(element, n) ==
  [ id |-> "scenario_" \o ToString(n),
    name |-> "Test " \o Label(element) \o " functionality",
    description |-> "Verify " \o Label(element) \o " works correctly",
    steps |-> << "Navigate to the page",
                 "Locate " \o Label(element) \o " element",
                 "Interact with " \o Label(element),
                 "Verify expected behavior" >>,
    expected_result |-> Label(element) \o " should work as expected",
    priority |-> Priority(element) ]

\* the scenario dict built for one element when len(scenarios) = n
Scenario(element, n) ==
  [ id |-> "scenario_" \o ToString(n + 1),
    name |-> "Test " \o Label(element) \o " functionality",
    description |-> "Verify " \o Label(element) \o " works correctly",
    steps |-> << "Navigate to the page",
                 "Locate " \o Label(element) \o " element",
                 "Interact with " \o Label(element),
                 "Verify expected behavior" >>,
    expected_result |-> Label(element) \o " should work as expected",
    priority |-> Priority(element) ]

RECURSIVE Loop(_, _, _)
RECURSIVE Loop_Prepend(_, _, _)

\* Loop with scenarios.insert(0, scenario) instead of scenarios.append(scenario)
Loop_Prepend(elems, i, scenarios) ==
  IF i > Len(elems) THEN scenarios
  ELSE IF Qualifies(elems[i])
       THEN Loop_Prepend(elems, i + 1, <<Scenario(elems[i], Len(scenarios))>> \o scenarios)
       ELSE Loop_Prepend(elems, i + 1, scenarios)

\* the for loop: scenarios after the elements elems[i..] have been visited
Loop(elems, i, scenarios) ==
  IF i > Len(elems) THEN scenarios
  ELSE IF Qualifies(elems[i])
       THEN Loop(elems, i + 1, Append(scenarios, Scenario(elems[i], Len(scenarios))))
       ELSE Loop(elems, i + 1, scenarios)

Scenarios(an) == Loop(Get(an, "interactive_elements", <<>>), 1, <<>>)

(* ----------------------------- responses ------------------------------- *)

NoResponse == [kind |-> "none"]

HTTPError(code, prefix, cause) ==
  [kind |-> "http_error", status |-> code, detail |-> prefix \o cause]

Returned(b) == [kind |-> "ok", status |-> 200, body |-> b]

NoResult == [none |-> TRUE]

NoRequest == [none |-> TRUE]

(* ------------------------------ lifespan ------------------------------- *)

\* str(e) of what XPathAgent() can raise
AgentInitErrors == { <<"OPENAI_API_KEY", "is", "not", "set">>, <<"model", "unavailable">> }

\* "OPENAI_API_KEY" in str(e)
MentionsKey(msg) == \E i \in 1..Len(msg) : msg[i] = "OPENAI_API_KEY"

\* xpath_agent after the try/except of lifespan, given what XPathAgent() did
AfterConstruction(old, outcome) ==
  IF outcome.raised
  THEN IF MentionsKey(outcome.msg) THEN <<>> ELSE old
  ELSE <<"XPathAgent">>

ConstructionOutcomes ==
  { [raised |-> FALSE, msg |-> <<>>] } \cup { [raised |-> TRUE, msg |-> m] : m \in AgentInitErrors }

lifespan ==
  /\ ~started
  /\ \E o \in ConstructionOutcomes : xpath_agent' = AfterConstruction(xpath_agent, o)
  /\ started' = TRUE
  /\ UNCHANGED <<handler, pc, request, analysis, result, exc, response,
                 genCalls, agentCalls, executors>>

(* --------------------------- generate_xpath ---------------------------- *)

\* a dict restricted to some of its keys
Restrict(d, keys) == [k \in (DOMAIN d) \cap keys |-> d[k]]

RequiredKeys == {"xpath_locators", "confidence_scores"}
OptionalKeys == {"alternative_locators", "reasoning", "success"}

\* LocatorResult of the deterministic generator (spec 3, 4.3): a match, with
\* confidences in hundredths, and the reported NoMatch outcome (spec 7).
MatchResult ==
  [ xpath_locators |-> <<"//*[@id='x']">>, confidence_scores |-> <<95>>,
    alternative_locators |-> <<"//button[1]">>,
    reasoning |-> "ID 0.95, Positional 0.3", success |-> TRUE ]

NoMatchResult ==
  [ xpath_locators |-> <<>>, confidence_scores |-> <<>>,
    alternative_locators |-> <<>>,
    reasoning |-> "no strategy matched", success |-> FALSE ]

\* What SimpleXPathGenerator.generate_xpath returns: the locator lists are
\* always there, the keys the handler reads with .get() may be missing.
GeneratorResults ==
  { Restrict(r, RequiredKeys \cup opt) : r \in {MatchResult, NoMatchResult},
                                         opt \in SUBSET OptionalKeys }

\* What the LLM-backed agent returns: any of the keys may be missing.
AgentResults ==
  { Restrict(MatchResult, keys) : keys \in SUBSET (RequiredKeys \cup OptionalKeys) }

\* str(e) of the exceptions the collaborators raise
GeneratorErrors == { "No module named 'simple_main'", "parser failure" }
AgentErrors == { "rate limit exceeded" }
ParseErrors == { "cannot parse html" }

\* Subscriptable with a misspelt key, so that the subscript always raises
Subscriptable_KeyTypo(res) == {"xpath_locator", "confidence_scores"} \subseteq DOMAIN res

\* result["xpath_locators"] and result["confidence_scores"] raise KeyError
\* when the key is missing
Subscriptable(res) == RequiredKeys \subseteq DOMAIN res

\* XPathResponse that drops the reasoning of the result
XPathResponse_NoReasoning(res, succ) ==
  [ xpath_locators |-> res["xpath_locators"],
    confidence_scores |-> res["confidence_scores"],
    alternative_locators |-> Get(res, "alternative_locators", <<>>),
    reasoning |-> "",
    success |-> succ ]

\* XPathResponse(xpath_locators=result[...], ..., success=succ)
XPathResponse(res, succ) ==
  [ xpath_locators |-> res["xpath_locators"],
    confidence_scores |-> res["confidence_scores"],
    alternative_locators |-> Get(res, "alternative_locators", <<>>),
    reasoning |-> Get(res, "reasoning", ""),
    success |-> succ ]

\* ReportedSuccess as on the agent path: success=True whatever the result says
ReportedSuccess_AlwaysTrue(res) == TRUE

\* success=result.get("success", True) of the deterministic path
ReportedSuccess(res) == Get(res, "success", TRUE)

\* AgentPresent that takes the agent branch whatever the global holds
AgentPresent_Always(agent) == TRUE

\* `if xpath_agent:`
AgentPresent(agent) == agent /= <<>>

\* The try block, lines 180-196: the import or the constructor raises, or the
\* generator is called and raises, or it returns and the response is built.
GX_Try ==
  /\ started /\ handler = "idle"
  /\ handler' = "generate_xpath"
  /\ \/ \E m \in GeneratorErrors :
          /\ exc' = <<m>>
          /\ genCalls' \in {0, 1}
          /\ result' = NoResult
          /\ response' = NoResponse
          /\ pc' = "except"
     \/ \E r \in GeneratorResults :
          /\ genCalls' = 1
          /\ result' = r
          /\ IF Subscriptable(r)
             THEN /\ response' = Returned(XPathResponse(r, ReportedSuccess(r)))
                  /\ exc' = <<>>
                  /\ pc' = "done"
             ELSE /\ response' = NoResponse
                  /\ exc' = <<"KeyError">>
                  /\ pc' = "except"
  /\ agentCalls' = 0 /\ executors' = 0
  /\ UNCHANGED <<started, xpath_agent, request, analysis>>

\* The except clause up to the await, lines 198-203 and 218-221.
GX_Except ==
  /\ handler = "generate_xpath" /\ pc = "except"
  /\ IF AgentPresent(xpath_agent)
     THEN \/ /\ pc' = "await_agent"
             /\ UNCHANGED response
          \/ \E m \in ParseErrors :
               /\ response' = HTTPError(500, "Agent error: ", m)
               /\ pc' = "done"
     ELSE /\ response' = HTTPError(500, "XPath generation error: ", exc[1])
          /\ pc' = "done"
  /\ UNCHANGED <<started, xpath_agent, handler, request, analysis, result, exc,
                 genCalls, agentCalls, executors>>

\* The awaited agent call and what follows it, lines 204-219.
GX_Agent ==
  /\ handler = "generate_xpath" /\ pc = "await_agent"
  /\ agentCalls' = agentCalls + 1
  /\ \/ \E m \in AgentErrors :
          /\ response' = HTTPError(500, "Agent error: ", m)
          /\ UNCHANGED result
     \/ \E r \in AgentResults :
          /\ result' = r
          /\ response' = IF Subscriptable(r)
                         THEN Returned(XPathResponse(r, TRUE))
                         ELSE HTTPError(500, "Agent error: ", "KeyError")
  /\ pc' = "done"
  /\ UNCHANGED <<started, xpath_agent, handler, request, analysis, exc,
                 genCalls, executors>>

(* ---------------------------- execute_tests ---------------------------- *)

TestCaseLists == { <<>>, <<"tc1">>, <<"tc1", "tc2">> }

\* the request body: a dict with or without the key 'test_cases'
ExecuteRequests ==
  { [test_cases |-> t] : t \in TestCaseLists } \cup { [suite |-> "smoke"] }

\* request.get('test_cases', [])
TestCases(req) == Get(req, "test_cases", <<>>)

\* str(e) of HTTPException(400, "test_cases required"): Starlette versions
\* differ on HTTPException.__str__
Str400 == { "", "400: test_cases required" }

ExecutorErrors == { "No module named 'agents.simple_test_executor'", "browser crashed" }

SuiteResult(t) == [total |-> Len(t), passed |-> Len(t)]

\* What leaves the try block of execute_tests, lines 271-280: a returned
\* value or a raised exception.
TryExecute(req, importFails, runFails, msg) ==
  IF importFails THEN [raised |-> TRUE, http |-> 0, str |-> msg, built |-> 0]
  ELSE IF TestCases(req) = <<>>
       THEN [raised |-> TRUE, http |-> 400, str |-> msg, built |-> 0]
       ELSE IF runFails THEN [raised |-> TRUE, http |-> 0, str |-> msg, built |-> 1]
            ELSE [raised |-> FALSE, value |-> SuiteResult(TestCases(req)), built |-> 1]

\* `except Exception as e`, lines 282-283: an HTTPException is an Exception
Catches(o) == o.raised

execute_tests ==
  /\ started /\ handler = "idle"
  /\ \E req \in ExecuteRequests, importFails \in BOOLEAN, runFails \in BOOLEAN :
       \E m \in (IF ~importFails /\ TestCases(req) = <<>> THEN Str400 ELSE ExecutorErrors) :
         LET o == TryExecute(req, importFails, runFails, m) IN
         /\ request' = req
         /\ executors' = o.built
         /\ response' = IF ~o.raised THEN Returned(o.value)
                        ELSE IF Catches(o)
                             THEN HTTPError(500, "Test execution error: ", o.str)
                             ELSE HTTPError(o.http, "test_cases required", "")
  /\ handler' = "execute_tests" /\ pc' = "done"
  /\ genCalls' = 0 /\ agentCalls' = 0
  /\ UNCHANGED <<started, xpath_agent, analysis, result, exc>>

(* ----------------------- generate_test_scenarios ----------------------- *)

AnalysisErrors == { "cannot parse html" }

\* the returned dict, lines 325-329
ScenariosResponse(scenarios) ==
  Returned([ success |-> TRUE, scenarios |-> scenarios,
             total_scenarios |-> Len(scenarios) ])

generate_test_scenarios ==
  /\ started /\ handler = "idle"
  /\ \/ \E n \in 0..MaxElems : \E elems \in [1..n -> Elements] :
          /\ analysis' = [interactive_elements |-> elems]
          /\ response' = ScenariosResponse(Scenarios(analysis'))
     \/ \E an \in OtherAnalyses :
          /\ analysis' = an
          /\ response' = ScenariosResponse(Scenarios(an))
     \/ \E m \in AnalysisErrors :
          /\ analysis' = NoAnalysis
          /\ response' = HTTPError(500, "Test scenario generation error: ", m)
  /\ handler' = "generate_test_scenarios" /\ pc' = "done"
  /\ genCalls' = 0 /\ agentCalls' = 0 /\ executors' = 0
  /\ UNCHANGED <<started, xpath_agent, request, result, exc>>

(* ------------------------------ the server ----------------------------- *)

\* The response is sent and the handler's locals are gone.
Reply ==
  /\ handler /= "idle" /\ pc = "done"
  /\ handler' = "idle" /\ pc' = "idle"
  /\ request' = NoRequest /\ analysis' = NoAnalysis /\ result' = NoResult
  /\ exc' = <<>> /\ response' = NoResponse
  /\ genCalls' = 0 /\ agentCalls' = 0 /\ executors' = 0
  /\ UNCHANGED <<started, xpath_agent>>

Init ==
  /\ started = FALSE
  /\ xpath_agent = <<>>
  /\ handler = "idle" /\ pc = "idle"
  /\ request = NoRequest /\ analysis = NoAnalysis /\ result = NoResult
  /\ exc = <<>> /\ response = NoResponse
  /\ genCalls = 0 /\ agentCalls = 0 /\ executors = 0

Next ==
  \/ lifespan
  \/ GX_Try
  \/ GX_Except
  \/ GX_Agent
  \/ execute_tests
  \/ generate_test_scenarios
  \/ Reply

Spec == Init /\ [][Next]_vars

(* ------------------------------ properties ----------------------------- *)

\* a generate_test_scenarios request has returned its scenarios
ScenariosReturned ==
  handler = "generate_test_scenarios" /\ pc = "done" /\ response.kind = "ok"

\* the interactive elements the analysis of that request reported
Reported ==
  IF "interactive_elements" \in DOMAIN analysis THEN analysis["interactive_elements"] ELSE <<>>

IsTarget(e) == e["tag"] = "button" \/ e["tag"] = "input" \/ e["tag"] = "a"

\* the reported elements with tag button, input or a, in document order
Sources == SelectSeq(Reported, IsTarget)

Emitted == response.body.scenarios

HasId(e) == "id" \in DOMAIN e /\ e["id"] /= ""

\* the display text of an element, the tag name when it is missing or empty
Display(e) == IF "text" \in DOMAIN e /\ e["text"] /= "" THEN e["text"] ELSE e["tag"]

StartsWith(str, prefix) ==
  Len(str) >= Len(prefix) /\ SubSeq(str, 1, Len(prefix)) = prefix

\* C1: the number of scenarios, and total_scenarios, equals the number of
\* reported interactive elements whose tag is button, input or a.
C1_ScenarioCount ==
  ScenariosReturned =>
    /\ Len(Emitted) = Cardinality({ i \in 1..Len(Reported) : IsTarget(Reported[i]) })
    /\ response.body.total_scenarios = Len(Emitted)

C1_Witness ==
  /\ ScenariosReturned
  /\ Len(Reported) = 3
  /\ Len(Emitted) = 2
  /\ \E i \in 1..3 : Reported[i]["tag"] = "select"

\* C2: the scenario of an element has priority 'high' if and only if the
\* element has a non-empty id; no id or an empty id gives 'medium'.
C2_PriorityIffId ==
  ScenariosReturned =>
    /\ Len(Emitted) = Len(Sources)
    /\ \A k \in 1..Len(Sources) :
         /\ Emitted[k].priority = "high" <=> HasId(Sources[k])
         /\ ~HasId(Sources[k]) => Emitted[k].priority = "medium"

C2_Witness ==
  /\ ScenariosReturned
  /\ Len(Sources) = 3
  /\ "id" \notin DOMAIN Sources[1] /\ Emitted[1].priority = "medium"
  /\ "id" \in DOMAIN Sources[2] /\ Sources[2]["id"] = "" /\ Emitted[2].priority = "medium"
  /\ HasId(Sources[3]) /\ Emitted[3].priority = "high"

\* C3: the k-th scenario has identifier scenario_k: the identifiers are
\* distinct, start at 1 and have no gaps, whatever elements were skipped.
C3_SequentialIds ==
  ScenariosReturned =>
    /\ \A k \in 1..Len(Emitted) : Emitted[k].id = "scenario_" \o ToString(k)
    /\ \A j, k \in 1..Len(Emitted) : j /= k => Emitted[j].id /= Emitted[k].id

C3_Witness ==
  /\ ScenariosReturned
  /\ Len(Reported) = 3
  /\ Reported[2]["tag"] = "select"
  /\ IsTarget(Reported[1]) /\ ~IsTarget(Reported[2]) /\ IsTarget(Reported[3])
  /\ Emitted[1].id = "scenario_1" /\ Emitted[2].id = "scenario_2"

\* C4: name, description and expected result embed the display text of the
\* source element, and the tag name whenever that text is missing or empty.
C4_DisplayTextOrTag ==
  ScenariosReturned =>
    /\ Len(Emitted) = Len(Sources)
    /\ \A k \in 1..Len(Sources) :
         /\ Emitted[k].name = "Test " \o Display(Sources[k]) \o " functionality"
         /\ Emitted[k].description = "Verify " \o Display(Sources[k]) \o " works correctly"
         /\ Emitted[k].expected_result = Display(Sources[k]) \o " should work as expected"

\* C5: the scenarios are in the order of their source elements: the k-th
\* scenario is the one of the k-th qualifying element and carries number k.
C5_DocumentOrder ==
  ScenariosReturned =>
    /\ Len(Emitted) = Len(Sources)
    /\ \A k \in 1..Len(Sources) :
         /\ Emitted[k].id = "scenario_" \o ToString(k)
         /\ Emitted[k].expected_result = Label(Sources[k]) \o " should work as expected"
         /\ Emitted[k].priority = Priority(Sources[k])

C5_Witness ==
  /\ ScenariosReturned
  /\ Len(Sources) = 2
  /\ Label(Sources[1]) /= Label(Sources[2])
  /\ Priority(Sources[1]) /= Priority(Sources[2])
  /\ Emitted[1].expected_result /= Emitted[2].expected_result

\* the deterministic generator returned a result whose success is true
GeneratorSucceeded == "success" \in DOMAIN result /\ result["success"] = TRUE

\* the deterministic generator returned a result whose success is false
GeneratorFailed == "success" \in DOMAIN result /\ result["success"] = FALSE

\* C6: the agent is called only after the deterministic path has been tried
\* and has raised or reported success = false, never after a result with
\* success = true.
C6_AgentOnlyAfterFailure ==
  [][ agentCalls' > agentCalls =>
        /\ handler = "generate_xpath"
        /\ exc /= <<>> \/ GeneratorFailed
        /\ ~GeneratorSucceeded ]_vars

C6_Witness ==
  /\ handler = "generate_xpath" /\ pc = "done"
  /\ agentCalls = 1 /\ genCalls = 1 /\ exc /= <<>>
  /\ response.kind = "ok"

\* the response built from a result of the deterministic generator
BuiltFrom(r) ==
  /\ response.kind = "ok"
  /\ response.body.xpath_locators = r["xpath_locators"]
  /\ response.body.confidence_scores = r["confidence_scores"]
  /\ "alternative_locators" \in DOMAIN r =>
       response.body.alternative_locators = r["alternative_locators"]
  /\ "reasoning" \in DOMAIN r => response.body.reasoning = r["reasoning"]
  /\ "success" \in DOMAIN r => response.body.success = r["success"]

\* C7: without an agent the application starts, and a request on which the
\* deterministic generator returns a result gets the response built from it.
C7_WorksWithoutAgent ==
  /\ ~started => ENABLED lifespan
  /\ (started /\ xpath_agent = <<>> /\ handler = "generate_xpath"
        /\ result /= NoResult) =>
       /\ pc = "done"
       /\ agentCalls = 0
       /\ BuiltFrom(result)

C7_Witness ==
  /\ started /\ xpath_agent = <<>>
  /\ handler = "generate_xpath" /\ pc = "done"
  /\ result = MatchResult
  /\ response.kind = "ok" /\ response.body.reasoning = MatchResult.reasoning

\* C8: a result with success = false is returned as a response with
\* success = false and the generator's reasoning, not raised as an error.
C8_NoMatchIsReported ==
  (handler = "generate_xpath" /\ agentCalls = 0 /\ GeneratorFailed) =>
    /\ pc = "done"
    /\ response.kind = "ok"
    /\ response.body.success = FALSE
    /\ "reasoning" \in DOMAIN result => response.body.reasoning = result["reasoning"]

C8_Witness ==
  /\ handler = "generate_xpath" /\ pc = "done"
  /\ result = NoMatchResult
  /\ response.kind = "ok" /\ response.body.success = FALSE
  /\ response.body.reasoning = "no strategy matched"

\* C9: a request without test cases is rejected with status 400,
\* 'test_cases required', and no executor is constructed for it.
C9_EmptyTestCasesIs400 ==
  (handler = "execute_tests" /\ pc = "done" /\ TestCases(request) = <<>>) =>
    /\ response.kind = "http_error"
    /\ response.status = 400
    /\ response.detail = "test_cases required"
    /\ executors = 0

\* outcome 1: the deterministic generator returned, its result is the response
DeterministicOutcome ==
  /\ exc = <<>> /\ genCalls = 1 /\ agentCalls = 0
  /\ result /= NoResult /\ BuiltFrom(result)

\* outcome 2: the generator raised, the agent is there, was called once and
\* its result is returned with success = true
AgentOutcome ==
  /\ exc /= <<>> /\ xpath_agent /= <<>> /\ agentCalls = 1
  /\ response.kind = "ok" /\ response.body.success = TRUE
  /\ result /= NoResult
  /\ response.body.xpath_locators = result["xpath_locators"]

\* outcome 3: HTTP 500 after the generator raised, the agent being absent or
\* the agent path having raised
ErrorOutcome ==
  /\ exc /= <<>>
  /\ response.kind = "http_error" /\ response.status = 500
  /\ \/ xpath_agent = <<>> /\ agentCalls = 0
          /\ StartsWith(response.detail, "XPath generation error")
     \/ xpath_agent /= <<>> /\ agentCalls \in {0, 1}
          /\ StartsWith(response.detail, "Agent error")

ExactlyOne(a, b, c) == (a /\ ~b /\ ~c) \/ (~a /\ b /\ ~c) \/ (~a /\ ~b /\ c)

\* C10: a generate_xpath request ends in exactly one of the three outcomes,
\* the agent is called at most once, and no handler changes xpath_agent.
C10_ThreeOutcomes ==
  [][ /\ started => xpath_agent' = xpath_agent
      /\ agentCalls' <= 1
      /\ (handler' = "generate_xpath" /\ pc' = "done") =>
           ExactlyOne(DeterministicOutcome', AgentOutcome', ErrorOutcome') ]_vars

C10_Witness ==
  /\ handler = "generate_xpath" /\ pc = "done"
  /\ xpath_agent /= <<>> /\ agentCalls = 1
  /\ response.kind = "http_error"
  /\ StartsWith(response.detail, "Agent error")

====
